---- MODULE Spec2Model ----
(***************************************************************************)
(* Nightly PRA detection engine of pra_nighttime.py: the threshold         *)
(* calibrator, the anomaly decision of analyze_row, the disturbance        *)
(* classifier and the per-station orchestrator process_station.            *)
(*                                                                         *)
(* Numbers.  P values, band powers and floors are integers in one fixed    *)
(* unit.  A threshold is kept exactly as the real number                   *)
(* (a + sqrt(r)) / d, written [a, r, d] with d > 0 and r >= 0, so that     *)
(* mean + K*stdev of an integer sample is represented without rounding.    *)
(* A non-finite float (nan, inf) is the single value NaN.                  *)
(***************************************************************************)
EXTENDS Integers, Sequences, FiniteSets, TLC

VARIABLES fn, arg, ret, now, fs

vars == <<fn, arg, ret, now, fs>>

(***************************************************************************)
(* Bounds of the checked input families.                                   *)
(***************************************************************************)
MaxLow == 118
MaxRamp == 40
MaxHist == 11
MaxGI == 121
MaxDay == 2
MaxRuns == 2
PriorNights == 2

(***************************************************************************)
(* OPTS of pra_nighttime.py.                                               *)
(***************************************************************************)
TailQPct == 75
FprPct == 5
KSigma == 4
PFloorDefault == 0

NaN == -1000000

\* np.isfinite
IsFinite(x) == x # NaN

\* the sequence s as an explicit list of its elements
List(s) == s \o <<>>

\* s[lo] + ... + s[hi], by halving
RECURSIVE SumRange(_, _, _)
SumRange(s, lo, hi) ==
  IF lo > hi THEN 0
  ELSE IF lo = hi THEN s[lo]
  ELSE LET m == (lo + hi) \div 2
       IN SumRange(s, lo, m) + SumRange(s, m + 1, hi)

SumSeq(s) == SumRange(s, 1, Len(s))

SumSq(s) == SumRange([i \in DOMAIN s |-> s[i] * s[i]], 1, Len(s))

\* Pq[np.isfinite(Pq)]
Finite(Pq) == SelectSeq(Pq, IsFinite)

\* float addition: a non-finite operand gives a non-finite sum
FAdd(x, y) == IF IsFinite(x) /\ IsFinite(y) THEN x + y ELSE NaN

Num(a, r, d) == [a |-> a, r |-> r, d |-> d]

\* t is a finite real number
NumFinite(t) == IsFinite(t.a) /\ t.d > 0 /\ t.r >= 0

\* floor(sqrt(r)) by bisection on lo <= sqrt(r) < hi
RECURSIVE ISqrtIn(_, _, _)
ISqrtIn(r, lo, hi) ==
  IF hi - lo <= 1 THEN lo
  ELSE LET m == (lo + hi) \div 2
       IN IF m * m <= r THEN ISqrtIn(r, m, hi) ELSE ISqrtIn(r, lo, m)

ISqrt(r) == ISqrtIn(r, 0, 46341)

\* x > t for an integer x and a threshold t = (a + sqrt(r)) / d:
\* x*d - a > sqrt(r), and for an integer y, y > sqrt(r) iff y > floor(sqrt(r))
RatGt(x, t) == x * t.d - t.a > ISqrt(t.r)

\* t >= 0
NumNonNeg(t) == NumFinite(t) /\ (t.a >= 0 \/ -t.a <= ISqrt(t.r))

\* Python max(t, x): x only when it is strictly greater
NumMax(t, x) == IF RatGt(x, t) THEN Num(x, 0, 1) ELSE t

\* the mean plus one deviation, whatever K is
MeanPlusKStd_OneSigma(F, K) ==
  Num(SumSeq(F), Len(F) * SumSq(F) - SumSeq(F) * SumSeq(F), Len(F))

\* np.mean(F) + K * np.std(F), np.std being the population deviation:
\* S/n + K*sqrt(n*Q - S*S)/n
MeanPlusKStd(F, K) ==
  LET n == Len(F)
      S == SumSeq(F)
      Q == SumSq(F)
  IN Num(S, K * K * (n * Q - S * S), n)

fit_ksigma_threshold(Pq, K, pFloor) ==
  LET F == Finite(Pq)
  IN IF Len(F) = 0
     THEN (IF pFloor > 0 THEN Num(pFloor, 0, 1) ELSE Num(0, 0, 1))
     ELSE IF pFloor > 0
          THEN NumMax(MeanPlusKStd(F, K), pFloor)
          ELSE MeanPlusKStd(F, K)

\* the k-th smallest element of F, k counted from 0 (the sorted array of np.quantile)
KthSmallest(F, k) ==
  CHOOSE v \in {F[i] : i \in DOMAIN F} :
    /\ Cardinality({i \in DOMAIN F : F[i] < v}) <= k
    /\ Cardinality({i \in DOMAIN F : F[i] <= v}) > k

\* 100 * np.quantile(F, qPct/100), linear interpolation between order statistics
Quantile100(F, qPct) ==
  LET n == Len(F)
      h == (n - 1) * qPct
      lo == h \div 100
      fr == h % 100
      hi == IF lo + 1 <= n - 1 THEN lo + 1 ELSE lo
      xlo == KthSmallest(F, lo)
      xhi == KthSmallest(F, hi)
  IN 100 * xlo + fr * (xhi - xlo)

\* len(Pq[Pq > u]) for u given times 100
Exceedances(F, u100) == Cardinality({i \in DOMAIN F : 100 * F[i] > u100})

\* len(X) < 30 taken as len(X) <= 30
TooFewExceedances_OffByOne(nX) == nX <= 30

\* the exceedance fallback never taken
TooFewExceedances_Never(nX) == FALSE

\* if len(X) < 10
TooFewExceedances_Ten(nX) == nX < 10

\* if len(X) < 30: fall back to k-sigma
TooFewExceedances(nX) == nX < 30

\* the guard on the fitted shape and scale: k is in tenths, so k > -0.5 is k > -5
FitAccepted(gpd) ==
  IsFinite(gpd.k) /\ IsFinite(gpd.sigma) /\ gpd.sigma > 0 /\ gpd.k > -5

\* the tail quantile taken without its validation
TailAccepted_Unchecked(gpd) == TRUE

\* the guard on the tail quantile
TailAccepted(gpd) == IsFinite(gpd.qTail) /\ gpd.qTail >= 0

(***************************************************************************)
(* fit_evt_threshold.  gpd is what scipy's genpareto does on this call:    *)
(* raises (fit or ppf throws), k (shape, in tenths) and sigma (scale) as   *)
(* fitted, qTail (the ppf value, in hundredths of the P unit); each may be *)
(* NaN.  The result carries the threshold and, as a ghost, the return      *)
(* statement that produced it.                                             *)
(***************************************************************************)
fit_evt_threshold(Pq, tailQ, fpr, pFloor, kSigma, gpd) ==
  LET F == Finite(Pq)
      ks == fit_ksigma_threshold(F, kSigma, pFloor)
  IN IF Len(F) < 20 THEN [thr |-> ks, path |-> "size"]
     ELSE LET u == Quantile100(F, tailQ)
          IN IF TooFewExceedances(Exceedances(F, u)) THEN [thr |-> ks, path |-> "exceed"]
             ELSE IF gpd.raises THEN [thr |-> ks, path |-> "exception"]
             ELSE IF ~FitAccepted(gpd) THEN [thr |-> ks, path |-> "badfit"]
             ELSE IF ~TailAccepted(gpd) THEN [thr |-> ks, path |-> "badq"]
             ELSE [thr |-> IF pFloor > 0 THEN NumMax(Num(FAdd(u, gpd.qTail), 0, 100), pFloor)
                           ELSE Num(FAdd(u, gpd.qTail), 0, 100),
                   path |-> "gpd"]

(***************************************************************************)
(* OPTS as a record.  nZ and NZfixed are in tenths, NZzMin in hundredths.  *)
(***************************************************************************)
OPTS ==
  [useEVT |-> TRUE, tailQ |-> TailQPct, fprTarget |-> FprPct, kSigma |-> KSigma,
   pFloor |-> PFloorDefault, useNZz |-> TRUE, NZzMin |-> 125, NZfixed |-> 25,
   usePersist |-> FALSE, persistK |-> 2, persistDays |-> 2,
   quietTol |-> 5, tightQuiet |-> FALSE, quietSymh |-> -30, quietTolTight |-> 2,
   quietGuardHrs |-> 0, ltStart |-> 20, ltEnd |-> 4]

\* nz_guard for one window; stMap maps a station to <<mu, sd>>.  With sd <= 0
\* the divisor is the float epsilon, so z > zMin exactly when nZ > mu.
nz_guard(nZ, station, stMap, useZ, zMin, fixedMin) ==
  IF ~useZ THEN nZ > fixedMin
  ELSE IF station \notin DOMAIN stMap THEN nZ > fixedMin
  ELSE LET mu == stMap[station][1]
           sd == stMap[station][2]
       IN IF sd <= 0 THEN nZ > mu ELSE 100 * (nZ - mu) > zMin * sd

\* persistence_rule; T and eq_date in seconds
persistence_rule(T, isAnomQuiet, eq_date, K, Ddays) ==
  IF \A i \in DOMAIN isAnomQuiet : ~isAnomQuiet[i] THEN FALSE
  ELSE Cardinality({i \in DOMAIN T :
          isAnomQuiet[i] /\ T[i] >= eq_date - Ddays * 86400 /\ T[i] <= eq_date}) >= K

\* the indices i >= k of flags that are TRUE, ascending (np.where)
RECURSIVE WhereFrom(_, _)
WhereFrom(flags, k) ==
  IF k > Len(flags) THEN <<>>
  ELSE IF flags[k] THEN <<k>> \o WhereFrom(flags, k + 1)
  ELSE WhereFrom(flags, k + 1)

Where(flags) == WhereFrom(flags, 1)

\* (P > thrEff) & isQuiet & nzOK without the quiet flag
AnomQuiet_IgnoreQuiet(P, thrEff, isQuiet, nzOK) ==
  IsFinite(P) /\ RatGt(P, thrEff) /\ nzOK

\* (P > thrEff) & isQuiet & nzOK for one window; a comparison with nan is False
AnomQuiet(P, thrEff, isQuiet, nzOK) ==
  IsFinite(P) /\ RatGt(P, thrEff) /\ isQuiet /\ nzOK

\* the night-level flag with the persistence rule applied whatever usePersist is
NightFlag_AlwaysPersist(opts, T, isAnomQuiet, eq_date) ==
  persistence_rule(T, isAnomQuiet, eq_date, opts.persistK, opts.persistDays)

\* the night-level flag that asks every window to be anomalous (np.all)
NightFlag_AllWindows(opts, T, isAnomQuiet, eq_date) ==
  IF opts.usePersist
  THEN persistence_rule(T, isAnomQuiet, eq_date, opts.persistK, opts.persistDays)
  ELSE \A i \in DOMAIN isAnomQuiet : isAnomQuiet[i]

\* the night-level is_anomalous
NightFlag(opts, T, isAnomQuiet, eq_date) ==
  IF opts.usePersist
  THEN persistence_rule(T, isAnomQuiet, eq_date, opts.persistK, opts.persistDays)
  ELSE \E i \in DOMAIN isAnomQuiet : isAnomQuiet[i]

\* return False, pd.DataFrame(), pd.DataFrame(), np.nan, 0
EmptyAnalysis(why) ==
  [is_anomalous |-> FALSE, anom_table |-> <<>>, ts |-> <<>>,
   thrEff |-> Num(NaN, 0, 1), nAnomHours |-> 0, path |-> why]

(***************************************************************************)
(* analyze_row.  ps is the result of compute_pseries, one record           *)
(* [T, P, nZ, nG, isQuiet] per valid window, <<>> for "no valid window";   *)
(* historical_Pq is <<>> for None or an empty array.                       *)
(***************************************************************************)
analyze_row(ps, eq_date, stationZstats, opts, station_code, historical_Pq, gpd) ==
  IF ps = <<>> THEN EmptyAnalysis("nowindows")
  ELSE
  LET n == Len(ps)
      qcur == Where([i \in 1..n |-> ps[i].isQuiet /\ IsFinite(ps[i].P)])
      Pq_current == List([j \in 1..Len(qcur) |-> ps[qcur[j]].P])
      Pq_combined == IF Len(historical_Pq) > 0 THEN historical_Pq \o Pq_current
                     ELSE Pq_current
  IN IF Len(Pq_combined) = 0 THEN EmptyAnalysis("nopool")
     ELSE
     LET fit == IF opts.useEVT
                THEN fit_evt_threshold(Pq_combined, opts.tailQ, opts.fprTarget,
                                       opts.pFloor, opts.kSigma, gpd)
                ELSE [thr |-> fit_ksigma_threshold(Pq_combined, opts.kSigma, opts.pFloor),
                      path |-> "ksigma"]
         thrEff == fit.thr
         nzOK == List([i \in 1..n |-> nz_guard(ps[i].nZ, station_code, stationZstats,
                                               opts.useNZz, opts.NZzMin, opts.NZfixed)])
         isAnomQuiet == List([i \in 1..n |->
                                AnomQuiet(ps[i].P, thrEff, ps[i].isQuiet, nzOK[i])])
         idx == Where(isAnomQuiet)
     IN [is_anomalous |-> NightFlag(opts, [i \in 1..n |-> ps[i].T], isAnomQuiet, eq_date),
         anom_table |-> [j \in 1..Len(idx) |->
                           [TimeOfAnomaly |-> ps[idx[j]].T,
                            DayOfAnomaly |-> ps[idx[j]].T - eq_date,
                            AnomalyValue |-> ps[idx[j]].P,
                            nZ |-> ps[idx[j]].nZ,
                            ThresholdValue |-> thrEff]],
         ts |-> [i \in 1..n |->
                   [Time |-> ps[i].T, P |-> ps[i].P, nZ |-> ps[i].nZ, nG |-> ps[i].nG,
                    isAnomalous |-> isAnomQuiet[i], isQuiet |-> ps[i].isQuiet]],
         thrEff |-> thrEff,
         nAnomHours |-> Len(idx),
         path |-> fit.path]

(***************************************************************************)
(* The disturbance classifier.  Times are in seconds.  A disturbance       *)
(* series GI is [tz, t, v]: sample times t, SYM-H values v, and whether    *)
(* its index is time-zone aware.  download_symh_omniweb builds the index   *)
(* from naive datetimes and the cache file is read back naive, while the   *)
(* window times T derive from a UTC-converted timestamp and are aware.     *)
(***************************************************************************)
HalfHour == 1800

GIEmpty(GI) == Len(GI.t) = 0

\* disturbed_mask: the mask only (the second value returned is GI.index)
disturbed_mask(GI, tight, symhThr) ==
  IF GIEmpty(GI) THEN <<>>
  ELSE [i \in DOMAIN GI.v |-> IF tight THEN GI.v[i] < symhThr ELSE GI.v[i] < -30]

\* apply_guard: every TRUE entry k sets out[max(0, k-guardMin) : k+guardMin+1]
apply_guard(mask, guardMin) ==
  IF guardMin <= 0 THEN mask
  ELSE [j \in DOMAIN mask |->
          mask[j] \/ \E k \in DOMAIN mask :
                       mask[k] /\ j >= k - guardMin /\ j <= k + guardMin]

\* GI.index >= t and GI.index <= t raise TypeError when the index is naive and
\* t is aware (pandas refuses to order naive against aware datetimes)
IndexCompareRaises(GI) == GI.tz # "aware"

\* fail-open replaced by fail-closed for a window without samples
QuietWithoutSamples_FailClosed == FALSE

\* lines 442-445: no data in window - assume quiet
QuietWithoutSamples == TRUE

\* frac <= tol for frac = dist/cnt and tol in percent
WithinTol(dist, cnt, tolPct) == 100 * dist <= tolPct * cnt

\* one window of compute_quiet_flags: [isQuiet, frac] with frac = [n, d]
QuietFlagAt(tm, GI, tol, tightFlag, tolTight, symhThr) ==
  IF IndexCompareRaises(GI)
  THEN [isQuiet |-> TRUE, frac |-> [n |-> 0, d |-> 1]]
  ELSE LET sub == {i \in DOMAIN GI.t :
                     GI.t[i] >= tm - HalfHour /\ GI.t[i] <= tm + HalfHour}
           dist == Cardinality({i \in sub : GI.v[i] < symhThr})
       IN IF Cardinality(sub) > 0
          THEN [isQuiet |-> IF tightFlag THEN WithinTol(dist, Cardinality(sub), tolTight)
                            ELSE WithinTol(dist, Cardinality(sub), tol),
                frac |-> [n |-> dist, d |-> Cardinality(sub)]]
          ELSE [isQuiet |-> QuietWithoutSamples, frac |-> [n |-> 0, d |-> 1]]

\* compute_quiet_flags: one [isQuiet, frac] per window time of T
compute_quiet_flags(T, GI, tol, tightFlag, tolTight, symhThr) ==
  IF GIEmpty(GI)
  THEN [m \in DOMAIN T |-> [isQuiet |-> TRUE, frac |-> [n |-> 0, d |-> 1]]]
  ELSE [m \in DOMAIN T |-> QuietFlagAt(T[m], GI, tol, tightFlag, tolTight, symhThr)]

\* the night gate with ltEnd taken as a night hour too
IsNight_EndInclusive(hr, ltStart, ltEnd) ==
  IF ltStart < ltEnd THEN ltStart <= hr /\ hr <= ltEnd
  ELSE hr >= ltStart \/ hr <= ltEnd

\* the local night gate on the hour of a window midpoint
IsNight(hr, ltStart, ltEnd) ==
  IF ltStart < ltEnd THEN ltStart <= hr /\ hr < ltEnd
  ELSE hr >= ltStart \/ hr < ltEnd

\* S_Z / S_G with no guard on the divisor
PRatio_NoGuard(sz, sg, SG) == [n |-> sz, d |-> sg]

\* S_Z / S_G_safe as the exact fraction [n, d]: min_S_G is
\* max(1e-10, 1e-6 * mean of the positive S_G), the mean taken as 1.0 when no
\* S_G is positive; S values are whole numbers, so 1e-6 * mean >= 1e-6 > 1e-10
PRatio(sz, sg, SG) ==
  LET pos == {i \in DOMAIN SG : SG[i] > 0}
      cnt == Cardinality(pos)
      sum == SumSeq([i \in DOMAIN SG |-> IF SG[i] > 0 THEN SG[i] ELSE 0])
  IN IF cnt = 0
     THEN (IF sg * 1000000 > 1 THEN [n |-> sz, d |-> sg] ELSE [n |-> sz * 1000000, d |-> 1])
     ELSE (IF sg * cnt * 1000000 > sum THEN [n |-> sz, d |-> sg]
           ELSE [n |-> sz * cnt * 1000000, d |-> sum])

(***************************************************************************)
(* compute_pseries.  rec is the night's samples cut into consecutive       *)
(* 3600-sample slots: rec.len samples, and for slot k (from 1) whether     *)
(* more than 5% of it is NaN and the band powers sz, sg its spectral       *)
(* estimate yields.  The result is one record per kept window, <<>> for    *)
(* the all-None return, and as a ghost the dilated mask isDistMinute,      *)
(* which the function computes and then leaves unused.                     *)
(***************************************************************************)
compute_pseries(rec, tUTC_start, tLocal_start, sUTC, eUTC, GI, opts) ==
  LET winLen == 3600
      isDistMinute0 == disturbed_mask(GI, opts.tightQuiet, opts.quietSymh)
      isDistMinute == IF opts.quietGuardHrs > 0
                      THEN apply_guard(isDistMinute0, opts.quietGuardHrs * 60)
                      ELSE isDistMinute0
      nSlots == rec.len \div winLen
      mid(k) == ((k - 1) * winLen + k * winLen) \div 2 - 1
      keep == Where([k \in 1..nSlots |->
                /\ ~(tUTC_start + mid(k) < sUTC \/ tUTC_start + mid(k) > eUTC)
                /\ IsNight(((tLocal_start + mid(k)) \div 3600) % 24, opts.ltStart, opts.ltEnd)
                /\ ~rec.slot[k].nanOver5pct])
      T == List([j \in 1..Len(keep) |-> tUTC_start + mid(keep[j])])
      S_Z == List([j \in 1..Len(keep) |-> rec.slot[keep[j]].sz])
      S_G == List([j \in 1..Len(keep) |-> rec.slot[keep[j]].sg])
      q == List(compute_quiet_flags(T, GI, opts.quietTol, opts.tightQuiet,
                                    opts.quietTolTight, opts.quietSymh))
  IN [isDistMinute |-> isDistMinute,
      ps |-> List([j \in 1..Len(keep) |->
                [T |-> T[j], P |-> PRatio(S_Z[j], S_G[j], S_G), nZ |-> S_Z[j], nG |-> S_G[j],
                 isQuiet |-> q[j].isQuiet, fracDist |-> q[j].frac]])]

(***************************************************************************)
(* The station folder.  Dates are day numbers, the clock `now` is in whole *)
(* hours UTC (day d starts at hour 24*d).  fs is the folder of the station *)
(* being processed:                                                        *)
(*   raw    date -> raw IAGA2002 file [n, sig]: n hours of parsable rows   *)
(*          from 00:00 UTC of that date, sig what they hold ("empty" is a  *)
(*          0-byte file, "norows" a file that parses to no row);           *)
(*   json   date -> NightlyRecord;   csv, fig   the dates that have one;   *)
(*   table  the rows of anomaly_master_table.csv.                          *)
(* A file exists iff its date is in the domain.                            *)
(***************************************************************************)
NoFiles == [raw |-> <<>>, json |-> <<>>, csv |-> {}, fig |-> {}, table |-> <<>>]

Min(a, b) == IF a < b THEN a ELSE b

Max(a, b) == IF a > b THEN a ELSE b

\* every file of f, and f[d], set to v
Put_OverwriteAll(f, d, v) == [x \in DOMAIN f \cup {d} |-> v]

\* f with f[d] set to v
Put(f, d, v) == [x \in DOMAIN f \cup {d} |-> IF x = d THEN v ELSE f[x]]

\* f without the keys outside keep
Restrict(f, keep) == [x \in DOMAIN f \cap keep |-> f[x]]

\* today: the date of now in RUN_TIMEZONE (UTC+8), the day before when the
\* hour there is before 8
RunDate(t) ==
  LET sg == t + 8
  IN IF sg % 24 < 8 THEN sg \div 24 - 1 ELSE sg \div 24

\* the record exists and the rerun is not forced: the early return True
\* replaced by always reprocessing
AlreadyRan_Never(exists, force_rerun) == FALSE

\* json_file.exists() and not force_rerun
AlreadyRan(exists, force_rerun) == exists /\ ~force_rerun

\* the window check never holding the run back
WindowNotComplete_Never(nowLocal, endLocal) == FALSE

\* now_station_tz < end_time, both in hours of station-local time
WindowNotComplete(nowLocal, endLocal) == nowLocal < endLocal

\* not yesterday_file.exists() or yesterday_file.stat().st_size == 0
MissingOrEmpty(raw, d) == d \notin DOMAIN raw \/ raw[d].sig = "empty"

\* what the data server sends at hour t for date d when it answers with rows
\* of kind sig: the hours of d elapsed so far; a failed request is sig "fail"
ServerReply(t, d, sig) ==
  IF sig \in {"fail", "empty", "norows"} THEN [n |-> 0, sig |-> sig]
  ELSE IF t - 24 * d >= 1 THEN [n |-> Min(24, t - 24 * d), sig |-> sig]
  ELSE [n |-> 0, sig |-> "norows"]

\* download_data: [raw, path, req]; path is FALSE for the None return, req
\* tells whether a request was sent
download_data(raw, d, reply) ==
  IF ~MissingOrEmpty(raw, d) THEN [raw |-> raw, path |-> TRUE, req |-> FALSE]
  ELSE IF reply.sig = "fail" THEN [raw |-> raw, path |-> FALSE, req |-> TRUE]
  ELSE [raw |-> Put(raw, d, reply), path |-> TRUE, req |-> TRUE]

\* the kinds of answer of the data server
ReplySigs == {"fail", "empty", "norows", "calm", "spike"}

\* the SYM-H cache file of the run: none, or one holding a quiet or a
\* disturbed series
SymhCaches == {"none", "storm"}

\* what scipy's fit does when it is reached
GpdInputs == {[raises |-> FALSE, k |-> 1, sigma |-> 3, qTail |-> 250]}

\* download_data at hour t with every answer its request can get
Downloads(raw, d, t) ==
  IF ~MissingOrEmpty(raw, d) THEN {download_data(raw, d, ServerReply(t, d, "fail"))}
  ELSE {download_data(raw, d, ServerReply(t, d, sig)) : sig \in ReplySigs}

\* download_symh_data: a cached series is read back with a naive index, one
\* sample per hour from the start date; without a cache download_symh_omniweb
\* compares the aware end date with its naive date limit, which raises, and
\* returns the empty frame
download_symh_data(start_date, cached) ==
  IF cached # "none"
  THEN [tz |-> "naive",
        t |-> [i \in 1..72 |-> 86400 * start_date + 3600 * (i - 1)],
        v |-> [i \in 1..72 |-> IF cached = "storm" THEN -51 ELSE -5]]
  ELSE [tz |-> "naive", t |-> <<>>, v |-> <<>>]

\* the hours of rows read_iaga2002 returns for the file of date d
RowsOf(raw, d) == IF d \in DOMAIN raw THEN raw[d].n ELSE 0

\* the number of whole seconds in both lo1..hi1 and lo2..hi2
Overlap(lo1, hi1, lo2, hi2) ==
  Max(0, Min(hi1, hi2) - Max(lo1, lo2) + 1)

\* band powers of the k-th 3600-sample slot of a night whose rows are of kind
\* sig: vertical 10 and horizontal 10, the vertical 50 in slot 3 of "spike"
SlotOf(sig, k) ==
  [nanOver5pct |-> FALSE, sz |-> IF sig = "spike" /\ k = 3 THEN 50 ELSE 10, sg |-> 10]

\* one window of compute_pseries in the units of analyze_row: P and the band
\* powers in tenths (the band powers used make the quotient whole)
ToWindow(w) ==
  [T |-> w.T, P |-> (10 * w.P.n) \div w.P.d, nZ |-> 10 * w.nZ, nG |-> 10 * w.nG,
   isQuiet |-> w.isQuiet]

ToWindows(ps) == List([j \in DOMAIN ps |-> ToWindow(ps[j])])

\* the quiet P values of one record, the finite ones or not
QuietPOf_IgnoreFinite(r) ==
  IF "unreadable" \in DOMAIN r \/ "P" \notin DOMAIN r THEN <<>>
  ELSE IF "isQuiet" \in DOMAIN r
       THEN LET idx == Where([i \in DOMAIN r.P |-> r.isQuiet[i]])
            IN [j \in DOMAIN idx |-> r.P[idx[j]]]
       ELSE IF "isAnomalous" \in DOMAIN r
            THEN LET idx == Where([i \in DOMAIN r.P |-> ~r.isAnomalous[i]])
                 IN [j \in DOMAIN idx |-> r.P[idx[j]]]
            ELSE <<>>

\* the quiet finite P values of one record; a record without isQuiet falls
\* back on ~isAnomalous, one with neither (or without P) gives nothing, and so
\* does a file json.load cannot read (the exception is caught)
QuietPOf(r) ==
  IF "unreadable" \in DOMAIN r \/ "P" \notin DOMAIN r THEN <<>>
  ELSE IF "isQuiet" \in DOMAIN r
       THEN LET idx == Where([i \in DOMAIN r.P |-> r.isQuiet[i] /\ IsFinite(r.P[i])])
            IN [j \in DOMAIN idx |-> r.P[idx[j]]]
       ELSE IF "isAnomalous" \in DOMAIN r
            THEN LET idx == Where([i \in DOMAIN r.P |-> ~r.isAnomalous[i] /\ IsFinite(r.P[i])])
                 IN [j \in DOMAIN idx |-> r.P[idx[j]]]
            ELSE <<>>

\* load_historical_quiet_p_values from day i back to days_back:
\* [Pq, days_loaded]
RECURSIVE LoadFrom(_, _, _, _)
LoadFrom(json, current_date, i, days_back) ==
  IF i > days_back THEN [Pq |-> <<>>, days |-> 0]
  ELSE LET rest == LoadFrom(json, current_date, i + 1, days_back)
           day == IF current_date - i \in DOMAIN json
                  THEN QuietPOf(json[current_date - i]) ELSE <<>>
       IN [Pq |-> day \o rest.Pq,
           days |-> rest.days + (IF Len(day) > 0 THEN 1 ELSE 0)]

load_historical_quiet_p_values(json, current_date, days_back) ==
  LoadFrom(json, current_date, 1, days_back)

\* the cutoff date itself pruned as well
cleanup_old_data_files_CutoffToo(f, current_date, days_to_keep) ==
  [f EXCEPT !.json = Restrict(f.json, {d \in DOMAIN f.json : d > current_date - days_to_keep}),
            !.csv = {d \in f.csv : d > current_date - days_to_keep},
            !.fig = {d \in f.fig : d > current_date - days_to_keep}]

\* cleanup_old_data_files: files dated before current_date - days_to_keep go
cleanup_old_data_files(f, current_date, days_to_keep) ==
  [f EXCEPT !.json = Restrict(f.json, {d \in DOMAIN f.json : d >= current_date - days_to_keep}),
            !.csv = {d \in f.csv : d >= current_date - days_to_keep},
            !.fig = {d \in f.fig : d >= current_date - days_to_keep}]

\* cleanup_downloaded_files: every *.iaga2002 of the folder is unlinked
cleanup_downloaded_files(f) == [f EXCEPT !.raw = <<>>]

\* ', '.join(f'{p:.2f}' ...): the values, each written with two decimals
TwoDecimals(vals) == [vals |-> vals, dec |-> 2]

\* the text of a cell is one number: a single value, no separator
OneNumber(cell) == Len(cell.vals) = 1

\* the rows of the master table as pd.read_csv hands them on to to_csv: a
\* column whose every cell is one number is inferred as float64, and a
\* float is written in its shortest form, which for P in tenths has one
\* decimal; a column with a cell of several values stays text
read_csv(table) ==
  IF table # <<>> /\ \A i \in DOMAIN table : OneNumber(table[i].PRA)
  THEN [i \in DOMAIN table |-> [table[i] EXCEPT !.PRA.dec = 1]]
  ELSE table

\* log_anomaly: the table is read, the new row is put after its rows, and
\* the whole table is written again
log_anomaly(f, date, thr, anom_table) ==
  [f EXCEPT !.table = Append(read_csv(f.table),
      [Range |-> date, Threshold |-> thr,
       PRA |-> TwoDecimals([j \in DOMAIN anom_table |-> anom_table[j].AnomalyValue]),
       Plot |-> date])]

(***************************************************************************)
(* process_station at hour t on folder f: the set of results the run can   *)
(* have.  What the run meets is drawn where the code consults it:          *)
(* FORCE_RERUN, the SYM-H cache file, the data server's answer to each     *)
(* request, scipy's fit, and whether save_plot or log_anomaly raises.  The *)
(* clock is read once.  A result is the folder after the run, the value    *)
(* returned ("True", "None", "False", or "raise" for an exception that     *)
(* escapes), and as ghosts the FORCE_RERUN it ran under, the acquisition   *)
(* calls made ("symh", which never fails, or a raw date and whether its    *)
(* request succeeded), whether analyze_row ran, and the branch taken.      *)
(***************************************************************************)
Result(folder, out, force, acq, analyzed, branch) ==
  [fs |-> folder, out |-> out, force |-> force, acq |-> acq,
   analyzed |-> analyzed, branch |-> branch]

\* the acquisition call of a download_data that sent a request
RawCall(dl, d) == IF dl.req THEN {[what |-> "raw", date |-> d, ok |-> dl.path]} ELSE {}

SymhCall(today) == [what |-> "symh", date |-> today, ok |-> TRUE]

\* the results dictionary written as the NightlyRecord
NightlyRecord(today, station_code, an) ==
  [date |-> today, station |-> station_code,
   timestamps |-> List([i \in DOMAIN an.ts |-> an.ts[i].Time]),
   P |-> List([i \in DOMAIN an.ts |-> an.ts[i].P]),
   nZ |-> List([i \in DOMAIN an.ts |-> an.ts[i].nZ]),
   nG |-> List([i \in DOMAIN an.ts |-> an.ts[i].nG]),
   isAnomalous |-> List([i \in DOMAIN an.ts |-> an.ts[i].isAnomalous]),
   isQuiet |-> List([i \in DOMAIN an.ts |-> an.ts[i].isQuiet]),
   threshold |-> an.thrEff, nAnomHours |-> an.nAnomHours,
   is_anomalous |-> an.is_anomalous]

\* a run that takes an empty time series for a night to save
NoTimeSeries_Never(ts) == FALSE

\* ts.empty
NoTimeSeries(ts) == ts = <<>>

\* process_station from the return of analyze_row on: the record, the CSV,
\* the plot, the master table and the two cleanups
SaveNight(station, today, fDl, an, force, acq) ==
  LET fJson == [fDl EXCEPT !.json = Put(fDl.json, today,
                                        NightlyRecord(today, station.code, an)),
                           !.csv = @ \cup {today}]
      fPlot == [fJson EXCEPT !.fig = @ \cup {today}]
      logs == an.is_anomalous /\ Len(an.anom_table) > 0
  IN IF NoTimeSeries(an.ts)
     THEN {Result(fDl, "False", force, acq, TRUE, "nots")}
     ELSE {Result(fJson, "raise", force, acq, TRUE, "plot"),
           Result(cleanup_old_data_files(
                    cleanup_downloaded_files(
                      IF logs THEN log_anomaly(fPlot, today, an.thrEff, an.anom_table)
                      ELSE fPlot), today, 7),
                  "True", force, acq, TRUE, "saved")}
          \cup (IF logs THEN {Result(fPlot, "raise", force, acq, TRUE, "log")} ELSE {})

\* the night's samples cut out of the rows of the two raw files: rowsY and
\* rowsT hours of rows from 00:00 UTC of yesterday and of today, of kinds sigY
\* and sigT; [rec, tUTC_start], rec as compute_pseries takes it
NightData(sUTC, eUTC, yesterday, rowsY, sigY, rowsT, sigT) ==
  LET today == yesterday + 1
      cntY == Overlap(sUTC, eUTC, 86400 * yesterday, 86400 * yesterday + 3600 * rowsY - 1)
      cntT == Overlap(sUTC, eUTC, 86400 * today, 86400 * today + 3600 * rowsT - 1)
  IN [rec |-> [len |-> cntY + cntT,
               slot |-> [k \in 1..((cntY + cntT) \div 3600) |->
                           SlotOf(IF 3600 * (k - 1) < cntY THEN sigY ELSE sigT, k)]],
      tUTC_start |-> IF cntY > 0 THEN Max(sUTC, 86400 * yesterday)
                     ELSE Max(sUTC, 86400 * today)]

SigOf(raw, d) == IF d \in DOMAIN raw THEN raw[d].sig ELSE "norows"

\* samples per window
WIN_LEN == 3600

\* a night of any length taken as long enough
NotEnoughNight_Never(len) == FALSE

\* len(night_data) < WIN_LEN
NotEnoughNight(len) == len < WIN_LEN

\* process_station from the night's samples on: len of them, ps the windows
\* compute_pseries makes of them
FromNight(station, today, fDl, len, ps, force, acq) ==
  IF NotEnoughNight(len)
  THEN {Result(fDl, "None", force, acq, FALSE, "short")}
  ELSE UNION {SaveNight(station, today, fDl,
                analyze_row(ps, 86400 * today - 3600 * station.tz, <<>>, OPTS,
                            station.code,
                            load_historical_quiet_p_values(fDl.json, today, 6).Pq, gpd),
                force, acq) : gpd \in GpdInputs}

\* the date of the day before the station's current date
LocalDate_DayBefore(station, t) == (t + station.tz) \div 24 - 1

\* now_station_tz.date(): the station-local date at hour t
LocalDate(station, t) == (t + station.tz) \div 24

\* process_station from the download loop to the call of analyze_row, the two
\* downloads dlY and dlT done
Analyse(station, t, f, force, cached, dlY, dlT) ==
  LET today == RunDate(t)
      yesterday == today - 1
      localDate == LocalDate(station, t)
      acq == {SymhCall(today)} \cup RawCall(dlY, yesterday) \cup RawCall(dlT, today)
      fDl == [f EXCEPT !.raw = dlT.raw]
      rowsY == IF dlY.path THEN RowsOf(dlT.raw, yesterday) ELSE 0
      rowsT == IF dlT.path THEN RowsOf(dlT.raw, today) ELSE 0
      download_failed == \/ ~dlY.path /\ ~(yesterday > localDate)
                         \/ ~dlT.path /\ ~(today > localDate)
      sUTC == 3600 * (24 * yesterday + 20 - station.tz)
      eUTC == 3600 * (24 * today + 4 - station.tz)
      night == NightData(sUTC, eUTC, yesterday, rowsY, SigOf(dlT.raw, yesterday),
                         rowsT, SigOf(dlT.raw, today))
  IN IF rowsY = 0 /\ rowsT = 0
     THEN {Result(fDl, IF download_failed THEN "False" ELSE "None", force, acq,
                  FALSE, "nodata")}
     ELSE FromNight(station, today, fDl, night.rec.len,
                    ToWindows(compute_pseries(night.rec, night.tUTC_start,
                                night.tUTC_start + 3600 * station.tz, sUTC, eUTC,
                                download_symh_data(yesterday - 1, cached), OPTS).ps),
                    force, acq)

\* process_station from the SYM-H download on
Process(station, t, f, force, cached) ==
  LET today == RunDate(t)
      yesterday == today - 1
      end_time == 24 * today + 4
  IN IF WindowNotComplete(t + station.tz, end_time)
     THEN IF MissingOrEmpty(f.raw, yesterday)
          THEN {Result([f EXCEPT !.raw = dl.raw], "None", force,
                       {SymhCall(today)} \cup RawCall(dl, yesterday), FALSE, "window") :
                  dl \in Downloads(f.raw, yesterday, t)}
          ELSE {Result(f, "None", force, {SymhCall(today)}, FALSE, "window")}
     ELSE UNION {UNION {Analyse(station, t, f, force, cached, dlY, dlT) :
                          dlT \in Downloads(dlY.raw, today, t)} :
                   dlY \in Downloads(f.raw, yesterday, t)}

\* FORCE_RERUN as the run reads it; the flag is consulted only beside an
\* existing record, so it is drawn as set only there
ForceInputs(exists) == IF exists THEN BOOLEAN ELSE {FALSE}

process_station(station, t, f) ==
  UNION {IF AlreadyRan(RunDate(t) \in DOMAIN f.json, force)
         THEN {Result(f, "True", force, {}, FALSE, "already")}
         ELSE UNION {Process(station, t, f, force, cached) : cached \in SymhCaches} :
           force \in ForceInputs(RunDate(t) \in DOMAIN f.json)}

(***************************************************************************)
(* Input families.                                                         *)
(***************************************************************************)
Rep(v, n) == [i \in 1..n |-> v]

\* n pairwise distinct values from+n-1, ..., from (descending)
Ramp(from, n) == [i \in 1..n |-> from + n - i]

\* nNaN non-finite values, a descending ramp of nRamp distinct values above
\* mid, nMid copies of mid and nLow copies of low
BuildPool(nNaN, nRamp, nMid, nLow, low, mid) ==
  Rep(NaN, nNaN) \o Ramp(mid + 1, nRamp) \o Rep(mid, nMid) \o Rep(low, nLow)

GpdOutcomes ==
  {[raises |-> FALSE, k |-> 1, sigma |-> 3, qTail |-> 250],
   [raises |-> FALSE, k |-> 1, sigma |-> 3, qTail |-> 0],
   [raises |-> TRUE, k |-> 1, sigma |-> 3, qTail |-> 250],
   [raises |-> FALSE, k |-> NaN, sigma |-> 3, qTail |-> 250],
   [raises |-> FALSE, k |-> -5, sigma |-> 3, qTail |-> 250],
   [raises |-> FALSE, k |-> -4, sigma |-> 0, qTail |-> 250],
   [raises |-> FALSE, k |-> 1, sigma |-> NaN, qTail |-> 250],
   [raises |-> FALSE, k |-> 1, sigma |-> 3, qTail |-> NaN],
   [raises |-> FALSE, k |-> -4, sigma |-> 3, qTail |-> -1]}

NoRet == [path |-> "none"]

\* a night of 8 hourly windows, 20:00 to 04:00, times in seconds from local
\* midnight of the analysis date: window i is centred at 20:29:59 + (i-1) h.
\* Window sp (if any) has P = 50; the windows of notQuiet are disturbed, those
\* of nzFail have a vertical band power equal to NZfixed.
NightWindows(base, sp, notQuiet, nzFail) ==
  [i \in 1..8 |->
     [T |-> (i - 5) * 3600 + 1799,
      P |-> IF i = sp THEN 50 ELSE base[i],
      nZ |-> IF i \in nzFail THEN 25 ELSE 30,
      nG |-> 30,
      isQuiet |-> i \notin notQuiet]]

BasePs ==
  {Rep(10, 8), Rep(9, 8), Rep(11, 8), <<9, 11, 9, 11, 9, 11, 9, 11>>,
   <<1, 2, 3, 4, 5, 6, 7, 8>>}

NightInputs ==
  {<<>>} \cup
  {NightWindows(b, sp, nq, nf) :
     b \in BasePs, sp \in {0, 1, 5, 8},
     nq \in {{}, {1}, {5}, {8}, 1..8}, nf \in {{}, {5}, 1..8}}

\* n historical quiet values, each 9, 10 or 11: a nines, then elevens only or
\* tens only
SmallHist(n) ==
  {Rep(9, a) \o Rep(11, n - a) : a \in 0..n} \cup {Rep(9, a) \o Rep(10, n - a) : a \in 0..n}

HistPools ==
  {<<>>} \cup
  UNION {SmallHist(n) : n \in (MaxHist - 2)..MaxHist} \cup
  {Ramp(9, 150), Rep(10, 150), Rep(10, 120) \o Ramp(11, 30),
   Rep(10, 121) \o Ramp(11, 29)}

EvtPools ==
  {BuildPool(nNaN, nRamp, nMid, nLow, 0, 2) :
     nNaN \in {0, 2}, nRamp \in {0, 1, 8, 29, 30, MaxRamp},
     nMid \in {0, 1, 11, 58}, nLow \in {0, 7, 18, 100, MaxLow}}

\* the finite values handed to fit_evt_threshold
EvtF == Finite(arg.Pq)

\* mean + K*stdev of F, raised to pFloor only when pFloor > 0; of an empty F the
\* mean is 0/0, which no floor replaces (max(nan, x) is nan)
KSigmaOf(F, K, pFloor) ==
  IF pFloor > 0 THEN NumMax(MeanPlusKStd(F, K), pFloor) ELSE MeanPlusKStd(F, K)

\* fewer than 20 finite values, or fewer than 30 strictly above the tailQ quantile
EvtFallbackCase ==
  \/ Len(EvtF) < 20
  \/ Exceedances(EvtF, Quantile100(EvtF, TailQPct)) < 30

InitEvt ==
  /\ fn = "fit_evt_threshold"
  /\ arg \in [Pq : EvtPools, pFloor : {PFloorDefault, 3, 400}, gpd : GpdOutcomes]
  /\ ret = NoRet
  /\ now = 0
  /\ fs = NoFiles

CallFitEvt ==
  /\ fn = "fit_evt_threshold"
  /\ ret = NoRet
  /\ ret' = fit_evt_threshold(arg.Pq, TailQPct, FprPct, arg.pFloor, KSigma, arg.gpd)
  /\ UNCHANGED <<fn, arg, now, fs>>

InitAnalyze ==
  /\ fn = "analyze_row"
  /\ arg \in [ps : NightInputs, hist : HistPools,
               gpd : {[raises |-> FALSE, k |-> 1, sigma |-> 3, qTail |-> 250],
                      [raises |-> TRUE, k |-> 1, sigma |-> 3, qTail |-> 250]}]
  /\ ret = NoRet
  /\ now = 0
  /\ fs = NoFiles

CallAnalyzeRow ==
  /\ fn = "analyze_row"
  /\ ret = NoRet
  /\ ret' = analyze_row(arg.ps, 0, <<>>, OPTS, "KAK", arg.hist, arg.gpd)
  /\ UNCHANGED <<fn, arg, now, fs>>

NextAnalyze == CallAnalyzeRow

SpecAnalyze == InitAnalyze /\ [][NextAnalyze]_vars

AnalyzeDone == fn = "analyze_row" /\ ret # NoRet

\* the amplitude guard of window i as process_station configures it
GuardPasses(i) ==
  nz_guard(arg.ps[i].nZ, "KAK", <<>>, OPTS.useNZz, OPTS.NZzMin, OPTS.NZfixed)

(***************************************************************************)
(* C2: analyze_row flags a window anomalous iff P > threshold (strictly)   *)
(* and the window is quiet and the amplitude guard passes; a window that   *)
(* is not quiet is never flagged.                                          *)
(***************************************************************************)
C2_FlagIffAllThree ==
  (AnalyzeDone /\ ret.ts # <<>>) =>
     /\ Len(ret.ts) = Len(arg.ps)
     /\ \A i \in DOMAIN arg.ps :
          /\ ret.ts[i].isAnomalous <=>
               (RatGt(arg.ps[i].P, ret.thrEff) /\ arg.ps[i].isQuiet /\ GuardPasses(i))
          /\ ~arg.ps[i].isQuiet => ~ret.ts[i].isAnomalous

\* a disturbed window far above the threshold, guard passing, not flagged,
\* beside a quiet window exactly at the threshold
C2_Witness ==
  /\ AnalyzeDone /\ ret.ts # <<>>
  /\ \E i \in DOMAIN arg.ps :
       /\ ~arg.ps[i].isQuiet /\ GuardPasses(i)
       /\ RatGt(arg.ps[i].P, ret.thrEff) /\ ~ret.ts[i].isAnomalous
  /\ \E i \in DOMAIN arg.ps :
       /\ arg.ps[i].isQuiet /\ GuardPasses(i)
       /\ ret.thrEff = Num(arg.ps[i].P * ret.thrEff.d, 0, ret.thrEff.d)

\* the calibration sample of the call: historical values, then the night's quiet ones
AnalyzePool ==
  arg.hist \o [j \in 1..Len(Where([i \in DOMAIN arg.ps |-> arg.ps[i].isQuiet])) |->
                arg.ps[Where([i \in DOMAIN arg.ps |-> arg.ps[i].isQuiet])[j]].P]

\* 8 windows, all quiet, all passing the guard, seven with P in 0.9..1.1 and
\* one with P = 5.0 (P in tenths)
C6_Scenario ==
  /\ AnalyzeDone /\ Len(arg.ps) = 8
  /\ \A i \in 1..8 : arg.ps[i].isQuiet /\ GuardPasses(i)
  /\ Cardinality({i \in 1..8 : arg.ps[i].P = 50}) = 1
  /\ \A i \in 1..8 : arg.ps[i].P = 50 \/ arg.ps[i].P \in 9..11

C6_Outcome ==
  /\ ret.is_anomalous
  /\ Len(ret.anom_table) = 1
  /\ ret.anom_table[1].AnomalyValue = 50
  /\ ret.anom_table[1].ThresholdValue = ret.thrEff
  /\ ret.thrEff = MeanPlusKStd(AnalyzePool, KSigma)

(***************************************************************************)
(* C6 as stated: in that scenario, with a pool of fewer than 20 values,    *)
(* the night is anomalous and the anomaly table has exactly one row, with  *)
(* value 5.0 and the night's threshold.                                    *)
(***************************************************************************)
C6_AsStated == (C6_Scenario /\ Len(AnalyzePool) < 20) => C6_Outcome

(***************************************************************************)
(* C6 amended: the same when the pool has 18 or 19 values, that is 10 or   *)
(* 11 historical quiet values, each in 0.9..1.1, beside the night's 8.     *)
(***************************************************************************)
C6_SpikeFlagged ==
  (/\ C6_Scenario
   /\ Len(AnalyzePool) \in {18, 19}
   /\ \A j \in DOMAIN arg.hist : arg.hist[j] \in 9..11) => C6_Outcome

C6_Witness ==
  /\ C6_Scenario /\ Len(arg.hist) = 10 /\ ret.is_anomalous
  /\ \E j \in DOMAIN arg.hist : arg.hist[j] = 9
  /\ \E j \in DOMAIN arg.hist : arg.hist[j] = 11

\* 150 historical and 8 current quiet values
C7_Scenario ==
  /\ AnalyzeDone /\ Len(arg.hist) = 150 /\ Len(arg.ps) = 8
  /\ \A i \in 1..8 : arg.ps[i].isQuiet /\ IsFinite(arg.ps[i].P)
  /\ \A j \in 1..150 : IsFinite(arg.hist[j])

GISeries(tz, start, n, d, dv) ==
  [tz |-> tz,
   t |-> [i \in 1..n |-> start + 60 * (i - 1)],
   v |-> [i \in 1..n |-> IF i <= d THEN dv ELSE -30]]

\* the night's samples start at 20:00:00 local time (72000 s), so the first
\* window is centred at 73799 s and spans 71999..75599; the series start one
\* hour before that span, at its first second, or one minute into it
GIInputs ==
  {GISeries(tz, start, n, d, dv) :
     tz \in {"naive", "aware"}, start \in {68399, 71999, 72059},
     n \in {0, 1, 20, 50, 60, 61, MaxGI}, d \in {0, 1, 2, 3, 4, MaxGI},
     dv \in {-51, -31}}

RecInputs ==
  {[len |-> 3599, slot |-> <<>>],
   [len |-> 3600, slot |-> <<[nanOver5pct |-> FALSE, sz |-> 40, sg |-> 20]>>],
   [len |-> 7200, slot |-> <<[nanOver5pct |-> FALSE, sz |-> 40, sg |-> 20],
                             [nanOver5pct |-> FALSE, sz |-> 30, sg |-> 0]>>],
   [len |-> 7200, slot |-> <<[nanOver5pct |-> TRUE, sz |-> 0, sg |-> 0],
                             [nanOver5pct |-> FALSE, sz |-> 0, sg |-> 0]>>]}

OptsInputs ==
  {[OPTS EXCEPT !.tightQuiet = tq, !.quietGuardHrs = g, !.quietSymh = th] :
     tq \in BOOLEAN, g \in {0, 1}, th \in {-30, -50}}

InitPseries ==
  /\ fn = "compute_pseries"
  /\ arg \in [rec : RecInputs, GI : GIInputs, opts : OptsInputs]
  /\ ret = NoRet
  /\ now = 0
  /\ fs = NoFiles

\* the night 20:00 to 04:00 of a station on UTC: samples from 72000 s, the
\* requested span 72000..100800
CallComputePseries ==
  /\ fn = "compute_pseries"
  /\ ret = NoRet
  /\ ret' = compute_pseries(arg.rec, 72000, 72000, 72000, 100800, arg.GI, arg.opts)
  /\ UNCHANGED <<fn, arg, now, fs>>

NextPseries == CallComputePseries

SpecPseries == InitPseries /\ [][NextPseries]_vars

PseriesDone == fn = "compute_pseries" /\ ret # NoRet

(***************************************************************************)
(* C8 as stated: compute_quiet_flags marks a window quiet iff the fraction  *)
(* of disturbance samples within +/-30 minutes (bounds inclusive) of the   *)
(* window midpoint whose value is below the disturbance threshold is at    *)
(* most the tolerance, 0.05 in normal mode and 0.02 in tight mode, a       *)
(* fraction equal to the tolerance being quiet.  (A window without any     *)
(* sample has no fraction and is quiet, as C9 says.)  The code departs     *)
(* from this for the series the repository produces: their index is naive, *)
(* the comparison with the aware window bounds raises, and the handler     *)
(* marks the window quiet whatever the samples are.                        *)
(***************************************************************************)
C8_AsStated ==
  PseriesDone =>
    \A j \in DOMAIN ret.ps :
      LET sub == {i \in DOMAIN arg.GI.t :
                    /\ arg.GI.t[i] >= ret.ps[j].T - 1800
                    /\ arg.GI.t[i] <= ret.ps[j].T + 1800}
          dist == Cardinality({i \in sub : arg.GI.v[i] < arg.opts.quietSymh})
      IN ret.ps[j].isQuiet <=>
           \/ sub = {}
           \/ 100 * dist <= (IF arg.opts.tightQuiet THEN 2 ELSE 5) * Cardinality(sub)

(***************************************************************************)
(* C9: an entirely empty disturbance series makes every window quiet with  *)
(* disturbed fraction 0; a non-empty series with no sample within a        *)
(* window's +/-30-minute span makes that window quiet; the call always     *)
(* yields one flag per window (no error escapes it).                       *)
(***************************************************************************)
C9_MissingDataIsQuiet ==
  PseriesDone =>
    \A j \in DOMAIN ret.ps :
      LET sub == {i \in DOMAIN arg.GI.t :
                    /\ arg.GI.t[i] >= ret.ps[j].T - 1800
                    /\ arg.GI.t[i] <= ret.ps[j].T + 1800}
      IN /\ ret.ps[j].isQuiet \in BOOLEAN
         /\ Len(arg.GI.t) = 0 => ret.ps[j].isQuiet /\ ret.ps[j].fracDist.n = 0
         /\ sub = {} => ret.ps[j].isQuiet

\* a window of a night whose series is non-empty, has an index that compares,
\* and has disturbed samples, none of them within the window's span
C9_Witness ==
  /\ PseriesDone
  /\ Len(ret.ps) = 2
  /\ arg.GI.tz = "aware"
  /\ Len(arg.GI.t) = 50
  /\ arg.GI.v[1] = -51
  /\ \A i \in DOMAIN arg.GI.t : arg.GI.t[i] < ret.ps[1].T - 1800
  /\ ret.ps[1].isQuiet /\ ret.ps[2].isQuiet

(***************************************************************************)
(* C10 as stated: with the guard band enabled (quietGuardHrs > 0) the      *)
(* per-window disturbed fraction and is_quiet flag returned by             *)
(* compute_pseries are those of the dilated mask.  Stated for series whose *)
(* index compares with the window times.  The code computes the dilated    *)
(* mask and then classifies from the undilated series.                     *)
(***************************************************************************)
C10_AsStated ==
  (PseriesDone /\ arg.opts.quietGuardHrs > 0 /\ arg.GI.tz = "aware") =>
    \A j \in DOMAIN ret.ps :
      LET sub == {i \in DOMAIN arg.GI.t :
                    /\ arg.GI.t[i] >= ret.ps[j].T - 1800
                    /\ arg.GI.t[i] <= ret.ps[j].T + 1800}
          dilated == apply_guard([i \in DOMAIN arg.GI.v |-> arg.GI.v[i] < arg.opts.quietSymh],
                                 arg.opts.quietGuardHrs * 60)
          dist == Cardinality({i \in sub : dilated[i]})
      IN sub # {} =>
           /\ ret.ps[j].fracDist.n * Cardinality(sub) = dist * ret.ps[j].fracDist.d
           /\ ret.ps[j].isQuiet <=>
                100 * dist <= (IF arg.opts.tightQuiet THEN 2 ELSE 5) * Cardinality(sub)

(***************************************************************************)
(* The orchestrator: one station folder, the clock, and runs of            *)
(* process_station.  arg is the station, ret the last run's result without *)
(* the folder, with the number of no-op returns in a row it completes and  *)
(* the number of runs so far.                                              *)
(***************************************************************************)
StationInputs ==
  {[code |-> "KAK", tz |-> 9], [code |-> "ESK", tz |-> 0], [code |-> "HON", tz |-> -10]}

\* the result of a run that meets a working data server and calm rows
CalmRun(station, t, f) ==
  CHOOSE r \in process_station(station, t, f) :
    /\ r.branch = "saved" /\ ~r.force
    /\ \A a \in r.acq : a.ok
    /\ \A d \in DOMAIN r.fs.json : \A i \in DOMAIN r.fs.json[d].P : r.fs.json[d].P[i] = 10

\* the folder after the k calm nights 0, ..., k-1, each processed at 20:00 UTC
\* of its date
RECURSIVE NightsDone(_, _)
NightsDone(station, k) ==
  IF k = 0 THEN NoFiles
  ELSE CalmRun(station, 24 * (k - 1) + 20, NightsDone(station, k - 1)).fs

NoRun == [out |-> "none", force |-> FALSE, acq |-> {}, analyzed |-> FALSE,
          branch |-> "none", noops |-> 0, runs |-> 0, had |-> {}]

\* a new folder at the start of day 1, or the folder of PriorNights processed
\* nights just after the last of them was processed
Init ==
  /\ fn = "process_station"
  /\ arg \in StationInputs
  /\ ret = NoRun
  /\ \/ now = 24 /\ fs = NoFiles
     \/ now = 24 * (PriorNights - 1) + 20 /\ fs = NightsDone(arg, PriorNights)

\* the hours of the UTC day at which the station's clock is looked at: the
\* hour before 04:00 station-local time and the hour of 04:00 itself
HourMarks(station) == {(27 - station.tz) % 24, (28 - station.tz) % 24}

\* the first marked hour after t
NextMark(station, t) ==
  CHOOSE u \in (t + 1)..(t + 24) :
    /\ u % 24 \in HourMarks(station)
    /\ \A w \in (t + 1)..(u - 1) : w % 24 \notin HourMarks(station)

\* the clock advances while a run is still to come
Tick ==
  /\ fn = "process_station"
  /\ ret.runs < MaxRuns
  /\ NextMark(arg, now) < 24 * (MaxDay + 1)
  /\ now' = NextMark(arg, now)
  /\ UNCHANGED <<fn, arg, ret, fs>>

\* one run of process_station; noops counts the no-op returns in a row, up to
\* 2, and had is the dates that had a record, CSV or figure before the run
RunStation ==
  /\ fn = "process_station"
  /\ ret.runs < MaxRuns
  /\ \E r \in process_station(arg, now, fs) :
       /\ fs' = r.fs
       /\ ret' = [out |-> r.out, force |-> r.force, acq |-> r.acq, analyzed |-> r.analyzed,
                  branch |-> r.branch,
                  noops |-> IF r.branch = "already" THEN Min(ret.noops + 1, 2) ELSE 0,
                  runs |-> ret.runs + 1,
                  had |-> DOMAIN fs.json \cup fs.csv \cup fs.fig]
  /\ UNCHANGED <<fn, arg, now>>

Next == Tick \/ RunStation

Spec == Init /\ [][Next]_vars

\* the step is a run of process_station
IsRun == fn = "process_station" /\ ret'.runs = ret.runs + 1

(***************************************************************************)
(* C1: a run that finds the NightlyRecord of (station, analysis night) in  *)
(* the folder and is not forced returns True without any acquisition call  *)
(* (disturbance index or raw data) and without recomputation, and leaves   *)
(* the record, the anomaly table and every other file of the folder as     *)
(* they were; every such run of a sequence of repeated runs does.          *)
(***************************************************************************)
C1_IdempotentNoOp ==
  [][(IsRun /\ RunDate(now) \in DOMAIN fs.json /\ ~ret'.force) =>
       /\ ret'.out = "True"
       /\ ret'.acq = {}
       /\ ~ret'.analyzed
       /\ fs' = fs]_vars

\* two no-op runs in a row on a folder that holds the night's record
C1_Witness ==
  /\ fn = "process_station"
  /\ ret.noops = 2
  /\ ret.out = "True"
  /\ ~ret.force
  /\ RunDate(now) \in DOMAIN fs.json

(***************************************************************************)
(* C3: a run (not an idempotent no-op) started while the station's local   *)
(* time is strictly before 04:00 of the analysis date returns None and     *)
(* persists no record; it requests the prior day's raw file exactly when   *)
(* that file is missing or empty, requests no other raw file, and returns  *)
(* None whether or not that request succeeds.                              *)
(***************************************************************************)
C3_SkippedBeforeWindowEnd ==
  [][(/\ IsRun
      /\ ~(RunDate(now) \in DOMAIN fs.json /\ ~ret'.force)
      /\ now + arg.tz < 24 * RunDate(now) + 4) =>
       /\ ret'.out = "None"
       /\ fs'.json = fs.json /\ fs'.csv = fs.csv /\ fs'.fig = fs.fig /\ fs'.table = fs.table
       /\ ~ret'.analyzed
       /\ {a.date : a \in {b \in ret'.acq : b.what = "raw"}} =
            (IF \/ RunDate(now) - 1 \notin DOMAIN fs.raw
                \/ fs.raw[RunDate(now) - 1].sig = "empty"
             THEN {RunDate(now) - 1} ELSE {})]_vars

\* a skipped run whose request for the prior day's file failed
C3_Witness ==
  /\ fn = "process_station"
  /\ ret.out = "None"
  /\ ret.branch = "window"
  /\ now + arg.tz < 24 * RunDate(now) + 4
  /\ \E a \in ret.acq : a.what = "raw" /\ a.date = RunDate(now) - 1 /\ ~a.ok
  /\ RunDate(now) \notin DOMAIN fs.json

NextEvt == CallFitEvt

SpecEvt == InitEvt /\ [][NextEvt]_vars

EvtDone == fn = "fit_evt_threshold" /\ ret # NoRet

(***************************************************************************)
(* C4 as stated: whenever fewer than 20 finite values remain or fewer than *)
(* 30 values lie strictly above the tailQ quantile, fit_evt_threshold      *)
(* returns exactly mean + K*stdev of the finite values, raised to pFloor   *)
(* only when pFloor > 0.                                                   *)
(***************************************************************************)
C4_AsStated ==
  (EvtDone /\ EvtFallbackCase) => ret.thr = KSigmaOf(EvtF, KSigma, arg.pFloor)

(***************************************************************************)
(* C4 amended: the same for a pool with at least one finite value; for a   *)
(* pool with no finite value the result is pFloor when pFloor > 0 and 0    *)
(* otherwise.                                                              *)
(***************************************************************************)
C4_KSigmaFallback ==
  (EvtDone /\ EvtFallbackCase) =>
     IF Len(EvtF) = 0
     THEN ret.thr = Num(IF arg.pFloor > 0 THEN arg.pFloor ELSE 0, 0, 1)
     ELSE ret.thr = KSigmaOf(EvtF, KSigma, arg.pFloor)

\* 20 or more finite values, fewer than 30 exceedances, the floor not reached
C4_Witness ==
  /\ EvtDone /\ Len(EvtF) >= 20 /\ ret.path = "exceed" /\ arg.pFloor > 0
  /\ ret.thr = MeanPlusKStd(EvtF, KSigma) /\ ret.thr.r > 0

(***************************************************************************)
(* C5: on every path fit_evt_threshold returns a finite, non-negative      *)
(* threshold, and one that is >= pFloor whenever pFloor > 0.               *)
(***************************************************************************)
C5_FiniteNonNegative ==
  EvtDone =>
     /\ NumFinite(ret.thr)
     /\ NumNonNeg(ret.thr)
     /\ (arg.pFloor > 0 => ~RatGt(arg.pFloor, ret.thr))

\* an accepted GPD fit whose threshold the positive floor replaces
C5_Witness ==
  /\ EvtDone /\ ret.path = "gpd" /\ arg.pFloor > 0
  /\ ret.thr = Num(arg.pFloor, 0, 1)

(***************************************************************************)
(* The historical pool: load_historical_quiet_p_values on a folder of      *)
(* records of every shape the loader tells apart.                          *)
(***************************************************************************)
MaxRecs == 2

\* the target night of the loader's inputs
TargetNight == 10

\* the record of date d in each shape: with both flag arrays, with
\* isAnomalous only, with neither, without P, not readable as JSON, and with
\* no quiet window
RecordShapes == {"both", "old", "bare", "noP", "unreadable", "disturbed"}

RecordOf(d, shape) ==
  LET P == <<10 + d, NaN, 12 + d, 50 + d>>
      isAnomalous == <<FALSE, FALSE, FALSE, TRUE>>
  IN CASE shape = "both" -> [P |-> P, isQuiet |-> <<TRUE, TRUE, FALSE, TRUE>>,
                             isAnomalous |-> isAnomalous]
       [] shape = "old" -> [P |-> P, isAnomalous |-> isAnomalous]
       [] shape = "bare" -> [P |-> P]
       [] shape = "noP" -> [isQuiet |-> <<TRUE, TRUE, FALSE, TRUE>>,
                            isAnomalous |-> isAnomalous]
       [] shape = "unreadable" -> [unreadable |-> TRUE]
       [] shape = "disturbed" -> [P |-> P, isQuiet |-> <<FALSE, FALSE, FALSE, FALSE>>,
                                  isAnomalous |-> isAnomalous]

\* how many days before the target night a record may be dated: the night
\* itself, the six days the loader looks at, and the two days before them
RecordAges == 0..8

\* folders of at most MaxRecs records, and the folder of six full nights
LoadInputs ==
  UNION {{[d \in {TargetNight - a : a \in S} |-> RecordOf(d, f[TargetNight - d])] :
            f \in [S -> RecordShapes]} :
           S \in {T \in SUBSET RecordAges : Cardinality(T) <= MaxRecs}}
  \cup {[d \in {TargetNight - a : a \in 1..6} |-> RecordOf(d, "both")]}

InitLoad ==
  /\ fn = "load_historical_quiet_p_values"
  /\ arg \in LoadInputs
  /\ ret = NoRet
  /\ now = 0
  /\ fs = NoFiles

CallLoad ==
  /\ fn = "load_historical_quiet_p_values"
  /\ ret = NoRet
  /\ ret' = load_historical_quiet_p_values(arg, TargetNight, 6)
  /\ UNCHANGED <<fn, arg, now, fs>>

NextLoad == CallLoad

SpecLoad == InitLoad /\ [][NextLoad]_vars

LoadDone == fn = "load_historical_quiet_p_values" /\ ret # NoRet

\* the values of P from index i on whose flag is set and that are finite
RECURSIVE KeptFrom(_, _, _)
KeptFrom(P, flag, i) ==
  IF i > Len(P) THEN <<>>
  ELSE (IF flag[i] /\ P[i] # NaN THEN <<P[i]>> ELSE <<>>) \o KeptFrom(P, flag, i + 1)

\* what the record of date d is to contribute
Contribution(d) ==
  IF d \notin DOMAIN arg THEN <<>>
  ELSE LET r == arg[d]
       IN IF "P" \notin DOMAIN r THEN <<>>
          ELSE IF "isQuiet" \in DOMAIN r THEN KeptFrom(r.P, r.isQuiet, 1)
          ELSE IF "isAnomalous" \in DOMAIN r
               THEN KeptFrom(r.P, [i \in DOMAIN r.P |-> ~r.isAnomalous[i]], 1)
               ELSE <<>>

\* the contributions of the dates ds[i], ds[i+1], ... one after the other
RECURSIVE PoolOf(_, _)
PoolOf(ds, i) ==
  IF i > Len(ds) THEN <<>> ELSE Contribution(ds[i]) \o PoolOf(ds, i + 1)

(***************************************************************************)
(* C11: from the record of each of the six days before the target night    *)
(* the loader takes exactly the finite P values whose isQuiet flag is set  *)
(* (without an isQuiet array: whose isAnomalous flag is not set; with      *)
(* neither: none); a missing or unreadable record gives nothing and the    *)
(* call still returns; the day count is the number of those days that gave *)
(* at least one value.                                                     *)
(***************************************************************************)
C11_QuietFiniteValuesLoaded ==
  LoadDone =>
     /\ ret.Pq = PoolOf([i \in 1..6 |-> TargetNight - i], 1)
     /\ ret.days = Cardinality({i \in 1..6 : Contribution(TargetNight - i) # <<>>})

\* a record with isAnomalous only beside an unreadable one: one day counted
C11_Witness ==
  /\ LoadDone
  /\ \E d \in DOMAIN arg : d \in (TargetNight - 6)..(TargetNight - 1)
                           /\ "unreadable" \in DOMAIN arg[d]
  /\ \E d \in DOMAIN arg : d \in (TargetNight - 6)..(TargetNight - 1)
                           /\ "P" \in DOMAIN arg[d] /\ "isQuiet" \notin DOMAIN arg[d]
                           /\ "isAnomalous" \in DOMAIN arg[d]
  /\ ret.days = 1
  /\ Len(ret.Pq) = 2

\* the dates of S, latest first
RECURSIVE Descending(_)
Descending(S) ==
  IF S = {} THEN <<>>
  ELSE LET m == CHOOSE x \in S : \A y \in S : y <= x
       IN <<m>> \o Descending(S \ {m})

\* the (up to) 6 most recent records dated before the target night
MostRecentPrior ==
  LET ds == Descending({d \in DOMAIN arg : d < TargetNight})
  IN SubSeq(ds, 1, Min(6, Len(ds)))

(***************************************************************************)
(* C12 as stated: the pool is made of the contributions of the (up to) 6   *)
(* most recent records dated before the target night, latest first,        *)
(* whatever calendar gaps lie between them and the target night.           *)
(***************************************************************************)
C12_AsStated ==
  LoadDone => ret.Pq = PoolOf(MostRecentPrior, 1)

(***************************************************************************)
(* Retention: one run of process_station for the target night on a folder  *)
(* that holds the records of earlier nights.                               *)
(***************************************************************************)
\* how many days before the target night the folder's records are dated
RetainAges == {0, 1, 6, 7, 8, 9}

\* the record a calm night d leaves
CalmRecordOf(station, d) == CalmRun(station, 24 * d + 20, NoFiles).fs.json[d]

\* the folder with record and CSV of the dates S and the figure of the dates F
FolderOf(station, S, F) ==
  [raw |-> <<>>, json |-> [d \in S |-> CalmRecordOf(station, d)], csv |-> S, fig |-> F,
   table |-> <<>>]

\* the folders runs can leave: every run that got as far as its figure has
\* pruned what was dated more than 7 days before it; the latest record may be
\* of a run that stopped before its figure
RetainFolders(station) ==
  {FolderOf(station, p[1], p[2]) :
     p \in {q \in (SUBSET {TargetNight - a : a \in RetainAges})
                    \X (SUBSET {TargetNight - a : a \in RetainAges}) :
              /\ q[2] \subseteq q[1]
              /\ \A d \in q[1] \ q[2] : \A e \in q[1] : e <= d
              /\ \A d \in q[2] : \A e \in q[1] : e >= d - 7}}

\* the folder of a station that was processed on each of the 7 nights before
FullWeek(station) ==
  FolderOf(station, (TargetNight - 7)..(TargetNight - 1), (TargetNight - 7)..(TargetNight - 1))

InitRetain ==
  /\ fn = "process_station"
  /\ arg \in StationInputs
  /\ ret = [NoRun EXCEPT !.runs = MaxRuns - 1]
  /\ now = 24 * TargetNight + 20
  /\ fs \in RetainFolders(arg) \cup {FullWeek(arg)}

NextRetain == RunStation

SpecRetain == InitRetain /\ [][NextRetain]_vars

\* the run persisted the night's record and returned True
Persisted == fn = "process_station" /\ ret'.runs = ret.runs + 1 /\ ret'.branch = "saved"

C14_OtherNightsUntouched ==
  [][IsRun =>
       LET D == RunDate(now)
       IN /\ \A d \in DOMAIN fs'.json \ {D} :
               d \in DOMAIN fs.json /\ fs'.json[d] = fs.json[d]
          /\ \A d \in DOMAIN fs.json \ (DOMAIN fs'.json \cup {D}) : d < D - 7]_vars

\* a forced re-run of night D that pruned D-9 and kept the record of D-6
C14_Witness ==
  /\ fn = "process_station" /\ ret.force /\ ret.branch = "saved"
  /\ ret.had = {TargetNight - 9, TargetNight - 6, TargetNight}
  /\ DOMAIN fs.json = {TargetNight - 6, TargetNight}
  /\ fs.json[TargetNight - 6] = CalmRecordOf(arg, TargetNight - 6)
  /\ fs.json[TargetNight] # CalmRecordOf(arg, TargetNight)

\* the run got past the 04:00 window check and into the download loop
Acquiring == IsRun /\ ret'.branch \notin {"already", "window"}

(***************************************************************************)
(* C15 as stated: a run in which the request for one of the two raw files  *)
(* fails, the file's date not being later than the station's local date,   *)
(* returns False and persists no record, whatever the other request gave.  *)
(***************************************************************************)
C15_AsStated ==
  [][(/\ Acquiring
      /\ \E a \in ret'.acq : /\ a.what = "raw" /\ ~a.ok
                              /\ a.date <= (now + arg.tz) \div 24) =>
       /\ ret'.out = "False"
       /\ fs'.json = fs.json]_vars

(***************************************************************************)
(* The tail of process_station, from the night's samples on, with what     *)
(* feature extraction returns drawn freely: any number of night samples    *)
(* and any windows they can hold, none included.                           *)
(***************************************************************************)
\* the windows w at their UTC times, eq the local midnight of the night
AtNight(w, eq) == [i \in DOMAIN w |-> [w[i] EXCEPT !.T = @ + eq]]

\* the windows of a night: calm or with a spike, all quiet or not, the
\* amplitude guard passing or not, the whole night or its first half
TailWindows ==
  {<<>>} \cup
  UNION {{w, SubSeq(w, 1, 4)} :
           w \in {NightWindows(Rep(10, 8), sp, nq, nf) :
                    sp \in {0, 3}, nq \in {{}, {3}, 1..8}, nf \in {{}, {3}}}}

\* sample counts of a night: none, one short of a window, one window, all
TailLengths == {0, WIN_LEN - 1, WIN_LEN, 8 * WIN_LEN}

\* the folder f with a row in its master table that an anomalous night, by
\* now pruned, left: its flagged windows had the values vals
LoggedBefore(f, vals) ==
  [f EXCEPT !.table = log_anomaly(NoFiles, TargetNight - 9, Num(20, 0, 1),
                                  [j \in DOMAIN vals |-> [AnomalyValue |-> vals[j]]]).table]

\* the folder f after the night d was processed with 8 quiet windows of the
\* pairwise distinct values from, ..., from + 7
VariedNight(station, d, f, from) ==
  (CHOOSE r \in SaveNight(station, d, f,
                 analyze_row(AtNight(NightWindows(Ramp(from, 8), 0, {}, {}),
                                     86400 * d - 3600 * station.tz),
                             86400 * d - 3600 * station.tz, <<>>, OPTS, station.code,
                             load_historical_quiet_p_values(f.json, d, 6).Pq,
                             [raises |-> FALSE, k |-> 1, sigma |-> 3, qTail |-> 250]),
                 FALSE, {}) : r.branch = "saved").fs

\* the folder after the k nights TargetNight - 7, ... were processed, night
\* by night, no two windows of the week with the same P
RECURSIVE VariedNights(_, _)
VariedNights(station, k) ==
  IF k = 0 THEN NoFiles
  ELSE VariedNight(station, TargetNight - 8 + k, VariedNights(station, k - 1),
                   10 + 8 * ((3 * k) % 7))

\* the folder before the run: new, or holding the records of the
\* PriorNights nights before, or those and a record of the night itself, or
\* those and a master table with a row, or the records of a whole week
TailFolders(station) ==
  LET prior == FolderOf(station, (TargetNight - PriorNights)..(TargetNight - 1),
                        (TargetNight - PriorNights)..(TargetNight - 1))
  IN {NoFiles, prior,
      FolderOf(station, (TargetNight - PriorNights)..TargetNight,
               (TargetNight - PriorNights)..TargetNight)}
     \cup {LoggedBefore(prior, vals) : vals \in {<<50>>, <<50, 60>>}}
     \cup {VariedNights(station, 7)}

InitTail ==
  /\ fn = "process_station"
  /\ arg \in {a \in [station : StationInputs, len : TailLengths, ps : TailWindows] :
               WIN_LEN * Len(a.ps) <= a.len}
  /\ ret = NoRun
  /\ now = 24 * TargetNight + 20
  /\ fs \in TailFolders(arg.station)

\* the rest of a run that met len night samples and got the windows ps
RunTail ==
  /\ fn = "process_station"
  /\ ret = NoRun
  /\ \E force \in ForceInputs(TargetNight \in DOMAIN fs.json) :
       /\ ~AlreadyRan(TargetNight \in DOMAIN fs.json, force)
       /\ \E r \in FromNight(arg.station, TargetNight, fs, arg.len,
                              AtNight(arg.ps, 86400 * TargetNight - 3600 * arg.station.tz),
                              force, {}) :
            /\ fs' = r.fs
            /\ ret' = [out |-> r.out, force |-> r.force, acq |-> r.acq,
                       analyzed |-> r.analyzed, branch |-> r.branch, noops |-> 0,
                       runs |-> 1, had |-> DOMAIN fs.json \cup fs.csv \cup fs.fig]
  /\ UNCHANGED <<fn, arg, now>>

NextTail == RunTail

SpecTail == InitTail /\ [][NextTail]_vars

TailDone == fn = "process_station" /\ ret # NoRun

(***************************************************************************)
(* C16: a run that has at least one window length of night samples and     *)
(* gets no valid window from feature extraction returns False and writes   *)
(* no record (nor CSV, figure or table row).                               *)
(***************************************************************************)
C16_NoWindowsFails ==
  [][(fn = "process_station" /\ ret = NoRun /\ ret' # NoRun
      /\ arg.len >= WIN_LEN /\ arg.ps = <<>>) =>
       /\ ret'.out = "False"
       /\ fs'.json = fs.json /\ fs'.csv = fs.csv /\ fs'.fig = fs.fig
       /\ fs'.table = fs.table]_vars

\* a whole night of samples, no valid window, on a folder with earlier records
C16_Witness ==
  /\ TailDone /\ arg.len = 8 * WIN_LEN /\ arg.ps = <<>>
  /\ ret.out = "False" /\ ret.analyzed
  /\ DOMAIN fs.json = (TargetNight - PriorNights)..(TargetNight - 1)

\* the step of the one run of the tail
TailRun == fn = "process_station" /\ ret = NoRun /\ ret' # NoRun

\* neither an earlier night nor this one gives the calibration a quiet value
NoQuietValue ==
  /\ load_historical_quiet_p_values(fs.json, TargetNight, 6).Pq = <<>>
  /\ \A i \in DOMAIN arg.ps : ~arg.ps[i].isQuiet \/ arg.ps[i].P = NaN

MaxStations == 2

\* the station lists, a station named twice included
StationLists == UNION {[1..n -> StationInputs] : n \in 0..MaxStations}

\* the entry main writes in results for what process_station did
StatusOf(out) ==
  CASE out = "True" -> "success"
    [] out = "None" -> "skipped"
    [] out = "raise" -> "error"
    [] OTHER -> "failed"

\* an exception that ends the loop
NextStation_StopOnError(i, out) == IF out = "raise" THEN Len(arg) + 1 ELSE i + 1

\* the for loop goes on to the next station whatever the outcome
NextStation(i, out) == i + 1

InitMain ==
  /\ fn = "main"
  /\ arg \in StationLists
  /\ ret = [next |-> 1, results |-> <<>>, order |-> <<>>, raised |-> {}]
  /\ now = 24 + 3
  /\ fs = [c \in {arg[i].code : i \in DOMAIN arg} |-> NoFiles]

\* what the loop body leaves in main's bookkeeping for the outcome out
Recorded(out) ==
  [next |-> NextStation(ret.next, out),
   results |-> Put(ret.results, arg[ret.next].code, StatusOf(out)),
   order |-> Append(ret.order, arg[ret.next].code),
   raised |-> IF out = "raise" THEN ret.raised \cup {ret.next} ELSE ret.raised]

\* one pass of the loop body: process_station on the next station of the list
ProcessNext ==
  /\ fn = "main"
  /\ ret.next <= Len(arg)
  /\ LET station == arg[ret.next]
     IN \E r \in process_station(station, now, fs[station.code]) :
          /\ fs' = [fs EXCEPT ![station.code] = r.fs]
          /\ ret' = Recorded(r.out)
  /\ UNCHANGED <<fn, arg, now>>

\* the loop body came back with some outcome, whatever it did to the files
LoopAdvances ==
  /\ fn = "main"
  /\ ret.next <= Len(arg)
  /\ \E out \in {"True", "None", "False", "raise"} : ret' = Recorded(out)

NextMain == ProcessNext

SpecMain == InitMain /\ [][NextMain]_vars

\* the loop body always completes: every request has a timeout and nothing
\* in process_station waits or loops without bound
SpecMainFair == SpecMain /\ WF_ret(LoopAdvances)

\* process_station has an outcome for the station the loop is at
BodyHasOutcome ==
  process_station(arg[ret.next], now, fs[arg[ret.next].code]) # {}

\* the loop is over
MainFinished == fn = "main" /\ ret.next > Len(arg)

(***************************************************************************)
(* C18: main takes the stations in list order, each entry once; an         *)
(* exception raised while processing a station is recorded as the outcome  *)
(* "error" of that station only and the loop goes on with the next         *)
(* station; the run ends, and then every station of the list has exactly   *)
(* one outcome, one of success, skipped, failed and error.                 *)
(***************************************************************************)
C18_EveryStationOneOutcome ==
  /\ [](fn = "main" =>
          /\ ret.next \in 1..(Len(arg) + 1)
          /\ ret.order = [i \in 1..(ret.next - 1) |-> arg[i].code]
          /\ DOMAIN ret.results = {arg[i].code : i \in 1..(ret.next - 1)}
          /\ \A c \in DOMAIN ret.results :
               ret.results[c] \in {"success", "skipped", "failed", "error"}
          /\ \A i \in ret.raised :
               (\A j \in (i + 1)..(ret.next - 1) : arg[j].code # arg[i].code)
                 => ret.results[arg[i].code] = "error")
  /\ [][fn = "main" =>
          \A c \in DOMAIN ret.results :
             c # arg[ret.next].code => ret'.results[c] = ret.results[c]]_vars
  /\ [](fn = "main" /\ ret.next <= Len(arg) => BodyHasOutcome)
  /\ <>MainFinished

\* the first station ended in an exception, the second was skipped
C18_Witness ==
  /\ MainFinished /\ Len(arg) = 2 /\ ret.raised = {1}
  /\ ret.results = [c \in {arg[1].code, arg[2].code} |->
                      IF c = arg[1].code THEN "error" ELSE "skipped"]
  /\ arg[1].code # arg[2].code

\* the windows of the returned time series that are flagged
Flagged == {i \in DOMAIN ret.ts : ret.ts[i].isAnomalous}

(***************************************************************************)
(* C19: with usePersist off (the default), analyze_row returns             *)
(* is_anomalous true iff some window is anomalous-quiet, that is iff       *)
(* nAnomHours > 0; nAnomHours is the number of true isAnomalous entries    *)
(* of the time series and the number of rows of the anomaly table; when    *)
(* no window has P above the threshold, is_anomalous is false and the      *)
(* count is 0.                                                             *)
(***************************************************************************)
C19_FlagIffAnyWindow ==
  (AnalyzeDone /\ ~OPTS.usePersist) =>
     /\ ret.is_anomalous <=> Flagged # {}
     /\ ret.is_anomalous <=> ret.nAnomHours > 0
     /\ ret.nAnomHours = Cardinality(Flagged)
     /\ ret.nAnomHours = Len(ret.anom_table)
     /\ (\A i \in DOMAIN arg.ps : ~RatGt(arg.ps[i].P, ret.thrEff)) =>
          (~ret.is_anomalous /\ ret.nAnomHours = 0)

\* a night with several flagged windows beside windows that are not flagged
C19_Witness ==
  /\ AnalyzeDone /\ ~OPTS.usePersist
  /\ ret.is_anomalous /\ ret.nAnomHours >= 2 /\ ret.nAnomHours < Len(ret.ts)
  /\ Len(ret.anom_table) = ret.nAnomHours

(***************************************************************************)
(* C20 as stated: a run that returns True has put one row for the night    *)
(* after the rows of the master table iff the is_anomalous of the record   *)
(* it wrote is true, and the rows that were in the table before the run    *)
(* are in it after the run, unchanged and in the same order.               *)
(***************************************************************************)
C20_AsStated ==
  [][(TailRun /\ ret'.out = "True") =>
       /\ Len(fs'.table) = Len(fs.table) + (IF fs'.json[TargetNight].is_anomalous THEN 1 ELSE 0)
       /\ fs'.json[TargetNight].is_anomalous => fs'.table[Len(fs'.table)].Range = TargetNight
       /\ SubSeq(fs'.table, 1, Len(fs.table)) = fs.table]_vars

(***************************************************************************)
(* analyze_row with the persistence rule switched on.  The night has 8     *)
(* windows with P = 1.1 over a history of 150 values 1.0, so that every    *)
(* quiet window is above the threshold; the windows of arg.nq are          *)
(* disturbed.  eq_date is local midnight of the analysis date, as          *)
(* process_station passes it: windows 1..4 are before it, 5..8 after it.   *)
(***************************************************************************)
PersistKs == {1, 2, 3}

PersistDayInputs == {1, 2}

InitPersist ==
  /\ fn = "analyze_row"
  /\ arg \in [nq : SUBSET (1..8), persistK : PersistKs, persistDays : PersistDayInputs]
  /\ ret = NoRet
  /\ now = 0
  /\ fs = NoFiles

CallAnalyzePersist ==
  /\ fn = "analyze_row"
  /\ ret = NoRet
  /\ ret' = analyze_row(NightWindows(Rep(11, 8), 0, arg.nq, {}), 0, <<>>,
                        [OPTS EXCEPT !.usePersist = TRUE, !.persistK = arg.persistK,
                                     !.persistDays = arg.persistDays],
                        "KAK", Rep(10, 150), [raises |-> FALSE, k |-> 1, sigma |-> 3, qTail |-> 250])
  /\ UNCHANGED <<fn, arg, now, fs>>

NextPersist == CallAnalyzePersist

SpecPersist == InitPersist /\ [][NextPersist]_vars

(***************************************************************************)
(* C21 as stated: with usePersist on, is_anomalous is true iff at least    *)
(* persistK anomalous-quiet windows lie in the persistDays days that end   *)
(* with the current night; every window of the night lies in that span,    *)
(* so iff at least persistK windows of the night are flagged.              *)
(***************************************************************************)
C21_AsStated ==
  AnalyzeDone => (ret.is_anomalous <=> Cardinality(Flagged) >= arg.persistK)

(***************************************************************************)
(* compute_pseries on a clean series of up to MaxSlots windows that starts *)
(* on the hour, arg.hour hours after local 00:00 of day 1, for a station   *)
(* tz hours from UTC.  The requested span is the night 20:00 of day 1 to   *)
(* 04:00 of day 2 local time, as process_station asks for it, or three     *)
(* whole days.                                                             *)
(***************************************************************************)
MaxSlots == 3

GateInputs == {<<20, 4>>, <<8, 16>>, <<22, 23>>}

CleanRec(n) ==
  [len |-> 3600 * n, slot |-> [k \in 1..n |-> [nanOver5pct |-> FALSE, sz |-> 40, sg |-> 20]]]

NoGI == [tz |-> "aware", t |-> <<>>, v |-> <<>>]

InitGate ==
  /\ fn = "compute_pseries"
  /\ arg \in [hour : 0..29, tz : {-10, 0, 9}, n : 1..MaxSlots, gate : GateInputs,
               night : BOOLEAN]
  /\ ret = NoRet
  /\ now = 0
  /\ fs = NoFiles

\* local and UTC time of the first sample
GateLocalStart == 86400 + 3600 * arg.hour

GateUTCStart == GateLocalStart - 3600 * arg.tz

\* the requested span in UTC
GateSpan ==
  IF arg.night
  THEN <<86400 + 72000 - 3600 * arg.tz, 2 * 86400 + 14400 - 3600 * arg.tz>>
  ELSE <<0 - 3600 * arg.tz, 3 * 86400 - 3600 * arg.tz>>

CallGate ==
  /\ fn = "compute_pseries"
  /\ ret = NoRet
  /\ ret' = compute_pseries(CleanRec(arg.n), GateUTCStart, GateLocalStart,
                            GateSpan[1], GateSpan[2], NoGI,
                            [OPTS EXCEPT !.ltStart = arg.gate[1], !.ltEnd = arg.gate[2]])
  /\ UNCHANGED <<fn, arg, now, fs>>

NextGate == CallGate

SpecGate == InitGate /\ [][NextGate]_vars

GateDone == fn = "compute_pseries" /\ ret # NoRet

\* the midpoint of window k in UTC, and the local hour of that instant
GateMid(k) == GateUTCStart + 3600 * (k - 1) + 1799

GateHour(k) == (arg.hour + k - 1) % 24

\* the times of the windows that came out
GateKept == {ret.ps[j].T : j \in DOMAIN ret.ps}

(***************************************************************************)
(* C22: a window comes out of compute_pseries iff its midpoint lies in     *)
(* the requested UTC span and the local hour h of the midpoint passes the  *)
(* gate: for ltStart > ltEnd (20 and 4) iff h >= ltStart or h < ltEnd, for *)
(* ltStart < ltEnd iff ltStart <= h < ltEnd.  With 20 and 4, hours 23 and  *)
(* 2 are night, hours 4 and 19 are not.                                    *)
(***************************************************************************)
C22_NightGate ==
  GateDone =>
    /\ Len(ret.ps) = Cardinality(GateKept)
    /\ \A k \in 1..arg.n :
         GateMid(k) \in GateKept <=>
           /\ GateMid(k) >= GateSpan[1] /\ GateMid(k) <= GateSpan[2]
           /\ IF arg.gate[1] < arg.gate[2]
              THEN arg.gate[1] <= GateHour(k) /\ GateHour(k) < arg.gate[2]
              ELSE GateHour(k) >= arg.gate[1] \/ GateHour(k) < arg.gate[2]
    /\ \A t \in GateKept : \E k \in 1..arg.n : t = GateMid(k)
    /\ (arg.gate = <<20, 4>> /\ ~arg.night) =>
         \A k \in 1..arg.n :
           /\ GateHour(k) \in {23, 2} => GateMid(k) \in GateKept
           /\ GateHour(k) \in {4, 19} => GateMid(k) \notin GateKept

\* a series from 02:00 of day 2 in a span of three days: the windows of
\* hours 2 and 3 come out, the window of hour 4 does not
C22_Witness ==
  /\ GateDone /\ arg.gate = <<20, 4>> /\ ~arg.night /\ arg.hour = 26 /\ arg.n = 3
  /\ Len(ret.ps) = 2 /\ GateMid(3) \notin GateKept

(***************************************************************************)
(* compute_pseries on nights of up to MaxSlots clean windows whose band    *)
(* powers are zero or not, window by window.                               *)
(***************************************************************************)
PowerInputs == [nanOver5pct : {FALSE}, sz : {0, 3}, sg : {0, 1, 20}]

InitRatio ==
  /\ fn = "compute_pseries"
  /\ arg \in UNION {[1..n -> PowerInputs] : n \in 1..MaxSlots}
  /\ ret = NoRet
  /\ now = 0
  /\ fs = NoFiles

CallRatio ==
  /\ fn = "compute_pseries"
  /\ ret = NoRet
  /\ ret' = compute_pseries([len |-> 3600 * Len(arg), slot |-> arg],
                            72000, 72000, 72000, 100800, NoGI, OPTS)
  /\ UNCHANGED <<fn, arg, now, fs>>

NextRatio == CallRatio

SpecRatio == InitRatio /\ [][NextRatio]_vars

\* eps of the claim as the fraction [n, d]: 1e-6 times the mean of the
\* positive S_G of the night, 1e-6 when none is positive; with whole S
\* values this is never below 1e-10
EpsOf(SG) ==
  LET pos == {i \in DOMAIN SG : SG[i] > 0}
      sum == SumSeq([i \in DOMAIN SG |-> IF SG[i] > 0 THEN SG[i] ELSE 0])
  IN IF pos = {} THEN [n |-> 1, d |-> 1000000]
     ELSE [n |-> sum, d |-> 1000000 * Cardinality(pos)]

\* max(sg, eps) as a fraction
DivisorOf(sg, SG) ==
  IF sg * EpsOf(SG).d > EpsOf(SG).n THEN [n |-> sg, d |-> 1] ELSE EpsOf(SG)

\* the S_G of the windows that came out
ReturnedSG == [i \in DOMAIN ret.ps |-> ret.ps[i].nG]

(***************************************************************************)
(* C23: the P of every window is S_Z divided by max(S_G, eps), eps being   *)
(* max(1e-10, 1e-6 * mean of the night's positive S_G) and 1e-6 when no    *)
(* S_G is positive; the divisor is strictly positive, so P is a finite     *)
(* number also when every S_G of the night is 0.                           *)
(***************************************************************************)
C23_GuardedDivisor ==
  PseriesDone =>
    \A j \in DOMAIN ret.ps :
       /\ DivisorOf(ret.ps[j].nG, ReturnedSG).n > 0
       /\ ret.ps[j].P.d > 0
       /\ ret.ps[j].P.n * DivisorOf(ret.ps[j].nG, ReturnedSG).n
            = ret.ps[j].nZ * DivisorOf(ret.ps[j].nG, ReturnedSG).d * ret.ps[j].P.d

\* three windows, every S_G zero, one of them with S_Z > 0: P = 3 / 1e-6
C23_Witness ==
  /\ PseriesDone /\ Len(ret.ps) = 3
  /\ \A j \in 1..3 : ret.ps[j].nG = 0
  /\ \E j \in 1..3 : ret.ps[j].nZ = 3 /\ ret.ps[j].P = [n |-> 3000000, d |-> 1]

(***************************************************************************)
(* C24 as stated: after a run that persisted night D and went through      *)
(* cleanup_old_data_files with days_to_keep = 7, the folder has records    *)
(* of at most 7 dates, D included.                                         *)
(***************************************************************************)
C24_AsStated ==
  [][Persisted => Cardinality(DOMAIN fs'.json) <= 7]_vars

\* the calibration sample of the run: the quiet values of the 6 nights before
\* and the night's own
TailPool ==
  load_historical_quiet_p_values(fs.json, TargetNight, 6).Pq
    \o [j \in 1..Len(Where([i \in DOMAIN arg.ps |-> arg.ps[i].isQuiet])) |->
         arg.ps[Where([i \in DOMAIN arg.ps |-> arg.ps[i].isQuiet])[j]].P]

\* the run wrote a record
RecordWritten == TailDone /\ ret.branch \in {"saved", "plot", "log"}

(***************************************************************************)
(* C25: in a run of process_station the calibration sample has at most 56  *)
(* values (6 nights of at most 8 windows and the night's own 8), fewer     *)
(* than 30 of them are strictly above its 0.75 quantile, and the threshold *)
(* of every record written is mean + 4 * stdev of the sample, never the    *)
(* GPD value.                                                              *)
(***************************************************************************)
C25_AlwaysKSigma ==
  RecordWritten =>
    /\ Len(TailPool) <= 56
    /\ Exceedances(TailPool, Quantile100(TailPool, TailQPct)) < 30
    /\ fs.json[TargetNight].threshold = MeanPlusKStd(TailPool, KSigma)

\* a full sample, 56 values, 14 of them above the quantile
C25_Witness ==
  /\ RecordWritten /\ Len(TailPool) = 56
  /\ Exceedances(TailPool, Quantile100(TailPool, TailQPct)) = 14
  /\ fs.json[TargetNight].threshold = MeanPlusKStd(TailPool, KSigma)

(***************************************************************************)
(* C26: when analyze_row gets no historical quiet value, the calibration  *)
(* sample is the night's own quiet P values, at most 8, the threshold is   *)
(* mean + 4 * stdev of that sample, no window is flagged and the           *)
(* night-level flag is False.                                              *)
(***************************************************************************)
C26_FirstNightNeverFlagged ==
  (AnalyzeDone /\ arg.hist = <<>>) =>
     /\ Len(AnalyzePool) <= 8
     /\ ret.ts # <<>> => ret.thrEff = MeanPlusKStd(AnalyzePool, KSigma)
     /\ Flagged = {}
     /\ ~ret.is_anomalous /\ ret.nAnomHours = 0 /\ ret.anom_table = <<>>

\* eight quiet windows, seven at 1.0 and one at 5.0, and nothing flagged
C26_Witness ==
  /\ AnalyzeDone /\ arg.hist = <<>> /\ Len(ret.ts) = 8
  /\ \A i \in 1..8 : arg.ps[i].isQuiet /\ GuardPasses(i)
  /\ Cardinality({i \in 1..8 : arg.ps[i].P = 50}) = 1
  /\ Cardinality({i \in 1..8 : arg.ps[i].P = 10}) = 7
  /\ ~ret.is_anomalous /\ Flagged = {}

\* the rows of the master table logged for night d
LoggedFor(d) == {i \in DOMAIN fs.table : fs.table[i].Range = d}

(***************************************************************************)
(* C27 as stated: whatever runs the station has had, the master table has  *)
(* at most one row per night, and at least one row for every record in    *)
(* the folder whose is_anomalous is true.                                  *)
(***************************************************************************)
C27_AsStated ==
  fn = "process_station" =>
    /\ \A i \in DOMAIN fs.table : Cardinality(LoggedFor(fs.table[i].Range)) <= 1
    /\ \A d \in DOMAIN fs.json : fs.json[d].is_anomalous => LoggedFor(d) # {}

PastWindowCheck == IsRun /\ ret'.branch \notin {"already", "window"}

\* a request for a raw file that failed
FailedRequest(a) == a.what = "raw" /\ ~a.ok

(***************************************************************************)
(* C29: in a run that passed the 04:00 window check neither requested      *)
(* date (the analysis date, the day before) is after the station-local     *)
(* date, so a failed download always counts as a failure: a run without    *)
(* any row that had a failed request returns False, and a run that ends    *)
(* skipped for want of data had no failed request and found both raw       *)
(* files, without a row in them.                                           *)
(***************************************************************************)
C29_NoFutureDateSkip ==
  [][PastWindowCheck =>
       /\ RunDate(now) <= LocalDate(arg, now)
       /\ (ret'.branch = "nodata" /\ \E a \in ret'.acq : FailedRequest(a))
            => ret'.out = "False"
       /\ (ret'.branch = "nodata" /\ ret'.out = "None")
            => /\ \A a \in ret'.acq : ~FailedRequest(a)
               /\ \A d \in {RunDate(now) - 1, RunDate(now)} :
                    d \in DOMAIN fs'.raw /\ RowsOf(fs'.raw, d) = 0]_vars

\* a run skipped for want of data: both requests answered, no row in either
\* file
C29_Witness ==
  /\ fn = "process_station" /\ ret.branch = "nodata" /\ ret.out = "None"
  /\ Cardinality({a \in ret.acq : a.what = "raw" /\ a.ok}) = 2
  /\ \A d \in {RunDate(now) - 1, RunDate(now)} :
       d \in DOMAIN fs.raw /\ RowsOf(fs.raw, d) = 0

(***************************************************************************)
(* compute_pseries on a night whose series has a hole: the rows kept by    *)
(* read_iaga2002 (dropna) and by the notna filter of process_station are   *)
(* arg.n whole windows of samples one second apart, except that arg.g      *)
(* seconds are missing after the first arg.a samples.  The station is on   *)
(* UTC, the night is 20:00 to 04:00 (72000..100800 s).                     *)
(***************************************************************************)
SamplesBeforeHole == {0, 1800, 3600, 5400, 7200}

HoleLengths == {0, 1, 1799, 1800, 3600, 7200}

InitHole ==
  /\ fn = "compute_pseries"
  /\ arg \in [a : SamplesBeforeHole, g : HoleLengths, n : 1..MaxSlots]
  /\ ret = NoRet
  /\ now = 0
  /\ fs = NoFiles

\* night_data['dt'].iloc[i]: the timestamp of row i (from 0) of the night
TimeOfRow(i) == 72000 + i + (IF i >= arg.a THEN arg.g ELSE 0)

CallHole ==
  /\ fn = "compute_pseries"
  /\ ret = NoRet
  /\ ret' = compute_pseries(CleanRec(arg.n), TimeOfRow(0), TimeOfRow(0),
                            72000, 100800, NoGI, OPTS)
  /\ UNCHANGED <<fn, arg, now, fs>>

NextHole == CallHole

SpecHole == InitHole /\ [][NextHole]_vars

\* the slot a recorded midpoint belongs to
SlotOfMid(T) == (T - TimeOfRow(0)) \div WIN_LEN + 1

\* the recorded midpoint lies within the timestamps of the slot's rows
MidWithinRows(T) ==
  /\ TimeOfRow(WIN_LEN * (SlotOfMid(T) - 1)) <= T
  /\ T <= TimeOfRow(WIN_LEN * SlotOfMid(T) - 1)

(***************************************************************************)
(* C30 as stated: the mid_time_utc of every emitted window lies between    *)
(* the timestamps of the first and the last sample of its window, also     *)
(* when seconds are missing from the series.                               *)
(***************************************************************************)
C30_AsStated ==
  PseriesDone => \A j \in DOMAIN ret.ps : MidWithinRows(ret.ps[j].T)

\* the same for a series without a missing second
C30_Contiguous ==
  PseriesDone /\ arg.g = 0 => \A j \in DOMAIN ret.ps : MidWithinRows(ret.ps[j].T)

====
